---------------------------- MODULE Spec2Model ----------------------------
(***************************************************************************)
(* A model of neural_lam/models/ar_model.py (class ARModel): the           *)
(* autoregressive rollout, the variable indexer, the per-worker metric    *)
(* accumulation / cross-worker aggregation of the validation, test and     *)
(* predict epochs, and the key migration of on_load_checkpoint.            *)
(*                                                                         *)
(* Tensors are reduced to the axes the code reduces over or indexes:       *)
(*   - a grid state (B, num_grid_nodes, d_f) with B = 1, d_f = 1 is a      *)
(*     function Nodes -> value;                                            *)
(*   - a per-batch metric tensor (B, pred_steps, d_f) with pred_steps = 1, *)
(*     d_f = 1 is the sequence of its B per-sample values.                 *)
(* Metric values are fixed-point numbers with Unit units per 1.0.          *)
(***************************************************************************)
EXTENDS Integers, Sequences, FiniteSets, TLC

VARIABLES
    \* ---- fields of the ARModel object (ARModel.__init__) ----
    border_mask,        \* buffer border_mask, (num_grid_nodes, 1)
    interior_mask,      \* buffer interior_mask = 1 - border_mask
    output_std,         \* self.output_std
    per_var_std,        \* buffer per_var_std; <<>> when not registered
    data_std,           \* buffer data_std
    n_example_pred,     \* self.n_example_pred
    plotted_examples,   \* self.plotted_examples, per worker
    val_metrics,        \* self.val_metrics, per worker: metric name -> list
    test_metrics,       \* self.test_metrics, per worker: metric name -> list
    spatial_loss_maps,  \* self.spatial_loss_maps, per worker
    inference_output,   \* self.inference_output, per worker
    variable_indices,   \* self.variable_indices
    ipc,                \* "config" until pre_compute_variable_indices ran
    \* ---- the data configuration read by pre_compute_variable_indices ----
    var_names,          \* config_loader.dataset.var_names
    var_is_3d,          \* config_loader.dataset.var_is_3d (a dict)
    vertical_levels,    \* config_loader.dataset.vertical_levels
    \* ---- one call of unroll_prediction ----
    init_states,        \* argument init_states: <<X_{t-1}, X_t>>
    forcing_features,   \* argument forcing_features, one entry per step
    true_states,        \* argument true_states, one state per step
    upc,                \* position in unroll_prediction
    step_i,             \* number of loop iterations completed
    prev_state,         \* local prev_state
    prev_prev_state,    \* local prev_prev_state
    prediction_list,    \* local prediction_list
    pred_std_list,      \* local pred_std_list
    calls,              \* the calls made to single_prediction, in order
    cands,              \* what single_prediction returned, in order
    unroll_result,      \* what unroll_prediction returned or raised
    \* ---- the trainer driving the workers ----
    phase,              \* the epoch the trainer is running, or "idle"
    epochs,             \* epochs started so far
    num_batches,        \* batches per worker in the running epoch
    dataset,            \* per worker and batch index: the batch's samples
    stage,              \* per worker: position in the epoch
    batch_idx,          \* per worker: steps done in the running epoch
    gathers,            \* per worker: tensors handed to a collective so far
    metric_k,           \* per worker: metrics aggregated in the running hook
    log_dict,           \* per worker: local log_dict of the running hook
    metric_tensor,      \* per worker: what its last all_gather_cat returned
    wandb_logs,         \* what was sent to wandb.log, in order
    error_maps,         \* calls of create_metric_log_dict (rank 0)
    error,              \* the exception that ended the run, or "none"
    epoch_batches,      \* per worker: batches its steps appended this epoch
    \* ---- loading a checkpoint ----
    restore_opt,        \* self.restore_opt
    checkpoint,         \* the checkpoint dict handed to on_load_checkpoint
    ckpt_log,           \* the checkpoint as given and after each load
    \* ---- the visualisation and logging sink (vis, wandb, files) ----
    sink_ok             \* FALSE when the calls into the sink raise

modelVars   == <<border_mask, interior_mask, output_std, per_var_std, data_std,
                 n_example_pred>>
accVars     == <<plotted_examples, val_metrics, test_metrics,
                 spatial_loss_maps, inference_output>>
indexerVars == <<variable_indices, ipc, var_names, var_is_3d, vertical_levels>>
unrollVars  == <<init_states, forcing_features, true_states, upc, step_i,
                 prev_state, prev_prev_state, prediction_list, pred_std_list,
                 calls, cands, unroll_result>>
trainerVars == <<phase, epochs, num_batches, dataset, stage, batch_idx,
                 gathers, metric_k, log_dict, metric_tensor, wandb_logs,
                 error_maps, error, epoch_batches>>
checkpointVars == <<restore_opt, checkpoint, ckpt_log>>
envVars     == <<sink_ok>>
vars        == <<modelVars, accVars, indexerVars, unrollVars, trainerVars,
                 checkpointVars, envVars>>

-----------------------------------------------------------------------------
(* Bounds of the model. *)

\* longest rollout (pred_steps) explored
MaxPredSteps == 2
\* longest var_names list explored
MaxVars == 2
\* epochs the trainer starts in one run
MaxEpochs == 2
\* batches per worker and epoch
MaxBatches == 2

\* calls of on_load_checkpoint on one checkpoint
MaxLoads == 2

-----------------------------------------------------------------------------
(* Values. *)

\* the grid nodes
Nodes == {1, 2}

\* fixed-point unit of the metric values: two decimal digits
Unit == 10 * 10

\* the buffer data_std (one variable): 2.0
DataStd == 2 * Unit

\* a non-finite float (NaN; inf behaves alike under 0 * x): any arithmetic
\* with it gives NaN again
NaN == 0 - 1

\* values of the data tensors (init_states, true_states)
DataVals == {0, 1}

\* values single_prediction may return at a node
PredVals == {1, 2, NaN}

\* None (single_prediction returning no std); a std tensor is <<v>>
None == <<>>

\* std values single_prediction may return
PredStds == {None, <<7>>}

\* the per-variable static std registered when output_std is off
StaticStd == <<3>>

\* float multiplication
Mul(a, b) == IF a = NaN \/ b = NaN THEN NaN ELSE a * b

\* float addition
Add(a, b) == IF a = NaN \/ b = NaN THEN NaN ELSE a + b

GridStates(vals) == [Nodes -> vals]

\* torch.stack of a list of tensors: raises on an empty list
\* (RuntimeError) and on a list holding None (TypeError)
StackError(list) ==
    IF list = <<>> THEN "RuntimeError"
    ELSE IF \E k \in 1..Len(list) : list[k] = None THEN "TypeError"
    ELSE "none"

-----------------------------------------------------------------------------
(* ARModel.__init__ *)

\* a second copy of the border mask
InteriorOfCopy(bm) == bm

\* interior_mask = 1.0 - border_mask
InteriorOf(bm) == [n \in Nodes |-> 1 - bm[n]]

\* no buffer per_var_std
PerVarStdOfNone(ostd) == <<>>

\* per_var_std is registered only when output_std is off
PerVarStdOf(ostd) == IF ostd THEN <<>> ELSE StaticStd

\* the workers (ranks) of the distributed run; rank 0 is the global zero
Workers == {0, 1}

\* the metric lists ARModel.__init__ creates in self.test_metrics, in
\* insertion order
TestMetricOrder(ostd) ==
    IF ostd THEN <<"mse", "mae", "output_std">> ELSE <<"mse", "mae">>

\* self.val_metrics = {"mse": []}
ValMetricOrder == <<"mse">>

Range(seq) == {seq[k] : k \in 1..Len(seq)}

EmptyLists(order) == [m \in Range(order) |-> <<>>]

\* the accumulators and counters as __init__ leaves them, on every worker
AccInit ==
    /\ plotted_examples = [w \in Workers |-> 0]
    /\ val_metrics = [w \in Workers |-> EmptyLists(ValMetricOrder)]
    /\ test_metrics = [w \in Workers |-> EmptyLists(TestMetricOrder(output_std))]
    /\ spatial_loss_maps = [w \in Workers |-> <<>>]
    /\ inference_output = [w \in Workers |-> <<>>]

\* no rollout in progress
UnrollIdle ==
    /\ init_states = <<>>
    /\ forcing_features = <<>>
    /\ true_states = <<>>
    /\ upc = "idle"
    /\ step_i = 0
    /\ prev_state = <<>>
    /\ prev_prev_state = <<>>
    /\ prediction_list = <<>>
    /\ pred_std_list = <<>>
    /\ calls = <<>>
    /\ cands = <<>>
    /\ unroll_result = <<>>

\* the indexer's configuration left out of the picture
IndexerIdle ==
    /\ var_names = <<>>
    /\ var_is_3d = <<>>
    /\ vertical_levels = <<>>
    /\ variable_indices = <<>>
    /\ ipc = "done"

\* no checkpoint is being loaded
CheckpointIdle ==
    /\ restore_opt = TRUE
    /\ checkpoint = <<>>
    /\ ckpt_log = <<>>

\* the sink is not called, or works
SinkIdle == sink_ok = TRUE

\* no trainer attached
TrainerIdle ==
    /\ phase = "idle"
    /\ epochs = 0
    /\ num_batches = 0
    /\ dataset = [w \in Workers |-> <<>>]
    /\ stage = [w \in Workers |-> "idle"]
    /\ batch_idx = [w \in Workers |-> 0]
    /\ gathers = [w \in Workers |-> <<>>]
    /\ metric_k = [w \in Workers |-> 0]
    /\ log_dict = [w \in Workers |-> <<>>]
    /\ metric_tensor = [w \in Workers |-> <<>>]
    /\ wandb_logs = <<>>
    /\ error_maps = {}
    /\ error = "none"
    /\ epoch_batches = [w \in Workers |-> <<>>]

-----------------------------------------------------------------------------
(* ARModel.unroll_prediction *)

\* the border state at every node
NewStateAllBorder(bm, im, border_state, pred_state) == border_state

\* new_state = border_mask * border_state + interior_mask * pred_state
NewState(bm, im, border_state, pred_state) ==
    [n \in Nodes |->
        Add(Mul(bm[n], border_state[n]), Mul(im[n], pred_state[n]))]

\* prev_state = new_state
FeedBackCandidate(new_state, pred_state) == pred_state

FeedBack(new_state, pred_state) == new_state

\* prev_prev_state = prev_state
Shift(prev, prev_prev) == prev

\* the view init_states[:, 1] overwritten with the new state
InitStatesWritten(states, new_state) == [states EXCEPT ![2] = new_state]

\* line 249: "prev_state = new_state" rebinds the local name; the view
\* init_states[:, 1] it named before the first iteration is not written,
\* and the blend of lines 238-241 builds a new tensor
InitStatesAfter(states, new_state) == states

\* the rollouts explored: pred_steps in 0..MaxPredSteps, the forcing of step
\* i distinct for every i
ForcingOf(n) == [i \in 1..n |-> 10 + i]

InitStatePairs ==
    { << [n \in Nodes |-> 0], [n \in Nodes |-> 1] >>,
      << [n \in Nodes |-> 1], [n \in Nodes |-> 0] >> }

\* the true states a batch may hold: the data values, or a non-finite
\* value (a missing observation) at every node
TrueStateSet ==
    { [n \in Nodes |-> 0], [n \in Nodes |-> 1], [n \in Nodes |-> NaN] }

\* lines 221-225: the locals before the loop
UnrollBegin ==
    /\ upc = "call"
    /\ prev_prev_state' = init_states[1]
    /\ prev_state' = init_states[2]
    /\ prediction_list' = <<>>
    /\ pred_std_list' = <<>>
    /\ step_i' = 0
    /\ upc' = "loop"
    /\ UNCHANGED <<init_states, forcing_features, true_states, calls, cands,
                   unroll_result>>
    /\ UNCHANGED <<checkpointVars, envVars>>
    /\ UNCHANGED <<modelVars, accVars, indexerVars, trainerVars>>

\* lines 227-249: one iteration of the loop, single_prediction returning
\* any candidate state and any std
UnrollIter ==
    /\ upc = "loop"
    /\ step_i < Len(forcing_features)
    /\ \E pred_state \in GridStates(PredVals), pred_std \in PredStds :
         LET forcing == forcing_features[step_i + 1]
             border_state == true_states[step_i + 1]
             new_state == NewState(border_mask, interior_mask,
                                   border_state, pred_state)
         IN  /\ calls' = Append(calls, [prev_state |-> prev_state,
                                        prev_prev_state |-> prev_prev_state,
                                        forcing |-> forcing])
             /\ cands' = Append(cands, [state |-> pred_state, std |-> pred_std])
             /\ prediction_list' = Append(prediction_list, new_state)
             /\ pred_std_list' = IF output_std
                                 THEN Append(pred_std_list, pred_std)
                                 ELSE pred_std_list
             /\ prev_prev_state' = Shift(prev_state, prev_prev_state)
             /\ prev_state' = FeedBack(new_state, pred_state)
             /\ init_states' = InitStatesAfter(init_states, new_state)
    /\ step_i' = step_i + 1
    /\ UNCHANGED <<forcing_features, true_states, upc, unroll_result>>
    /\ UNCHANGED <<checkpointVars, envVars>>
    /\ UNCHANGED <<modelVars, accVars, indexerVars, trainerVars>>

\* lines 251-261: stack the lists and return
UnrollReturnValue(plist, slist) ==
    IF StackError(plist) # "none"
    THEN [raised |-> StackError(plist), prediction |-> <<>>, pred_std |-> <<>>]
    ELSE IF output_std
    THEN IF StackError(slist) # "none"
         THEN [raised |-> StackError(slist), prediction |-> <<>>,
               pred_std |-> <<>>]
         ELSE [raised |-> "none", prediction |-> plist, pred_std |-> slist]
    ELSE [raised |-> "none", prediction |-> plist, pred_std |-> per_var_std]

UnrollReturn ==
    /\ upc = "loop"
    /\ step_i = Len(forcing_features)
    /\ unroll_result' = UnrollReturnValue(prediction_list, pred_std_list)
    /\ upc' = "done"
    /\ UNCHANGED <<init_states, forcing_features, true_states, step_i,
                   prev_state, prev_prev_state, prediction_list, pred_std_list,
                   calls, cands>>
    /\ UNCHANGED <<checkpointVars, envVars>>
    /\ UNCHANGED <<modelVars, accVars, indexerVars, trainerVars>>

\* a constructed model and the arguments of one unroll_prediction call
InitRollout ==
    /\ border_mask \in [Nodes -> {0, 1}]
    /\ interior_mask = InteriorOf(border_mask)
    /\ output_std \in BOOLEAN
    /\ per_var_std = PerVarStdOf(output_std)
    /\ data_std = DataStd
    /\ n_example_pred = 0
    /\ AccInit
    /\ CheckpointIdle
    /\ SinkIdle
    /\ IndexerIdle
    /\ TrainerIdle
    /\ init_states \in InitStatePairs
    /\ \E n \in 0..MaxPredSteps :
         /\ forcing_features = ForcingOf(n)
         /\ true_states \in [1..n -> TrueStateSet]
    /\ upc = "call"
    /\ step_i = 0
    /\ prev_state = <<>>
    /\ prev_prev_state = <<>>
    /\ prediction_list = <<>>
    /\ pred_std_list = <<>>
    /\ calls = <<>>
    /\ cands = <<>>
    /\ unroll_result = <<>>

NextRollout == UnrollBegin \/ UnrollIter \/ UnrollReturn

SpecRollout == InitRollout /\ [][NextRollout]_vars

-----------------------------------------------------------------------------
(* ARModel.pre_compute_variable_indices *)

\* the variable names explored, and Python's order of these strings
VarNameSet == {"OTHER", "T_2M", "U_10M"}

NameRank(name) ==
    CASE name = "OTHER" -> 1
      [] name = "T_2M"  -> 2
      [] name = "U_10M" -> 3

\* the vertical_levels lists explored
LevelSeqs == { <<>>, <<1>>, <<1, 2>>, <<2, 1>> }

\* the var_is_3d dicts explored: the empty dict, and every dict over the names
Is3dDicts == { <<>> } \cup [VarNameSet -> BOOLEAN]

SeqsUpTo(S, n) == UNION { [1..k -> S] : k \in 0..n }

\* Python's order on (var_name, level) tuples
TupleLeq(a, b) ==
    \/ NameRank(a[1]) < NameRank(b[1])
    \/ (a[1] = b[1] /\ a[2] <= b[2])

\* sorted(all_vars): a stable sort, here by insertion
RECURSIVE InsertSorted(_, _)
InsertSorted(x, seq) ==
    IF seq = <<>> THEN <<x>>
    ELSE IF TupleLeq(seq[1], x)
         THEN <<seq[1]>> \o InsertSorted(x, Tail(seq))
         ELSE <<x>> \o seq

RECURSIVE Sorted(_)
Sorted(seq) ==
    IF seq = <<>> THEN <<>>
    ELSE InsertSorted(seq[Len(seq)], Sorted(SubSeq(seq, 1, Len(seq) - 1)))

\* line 138: "if self.config_loader.dataset.var_is_3d:" tests the dict
\* itself, which is true exactly when the dict is not empty
Is3dTest(is3d, var_name) == DOMAIN is3d # {}

\* lines 139-142: the tuples one variable contributes to all_vars
VarTuples(is3d, levels, var_name) ==
    IF Is3dTest(is3d, var_name)
    THEN [k \in 1..Len(levels) |-> <<var_name, levels[k]>>]
    ELSE << <<var_name, 0>> >>

\* lines 137-142: all_vars
RECURSIVE AllVars(_, _, _)
AllVars(names, is3d, levels) ==
    IF names = <<>> THEN <<>>
    ELSE VarTuples(is3d, levels, names[1])
             \o AllVars(Tail(names), is3d, levels)

\* line 152: index += 1
NextIndexSkip(index) == index + 2

NextIndex(index) == index + 1

\* lines 149-151: variable_indices[var_name].append(index), the list
\* created on the name's first occurrence
AppendIndex(indices, var_name, index) ==
    [n \in DOMAIN indices \cup {var_name} |->
        IF n = var_name
        THEN (IF n \in DOMAIN indices THEN indices[n] ELSE <<>>) \o <<index>>
        ELSE indices[n]]

\* lines 147-152: the loop over sorted_vars
RECURSIVE IndexLoop(_, _, _)
IndexLoop(sorted_vars, indices, index) ==
    IF sorted_vars = <<>> THEN indices
    ELSE IndexLoop(Tail(sorted_vars),
                   AppendIndex(indices, sorted_vars[1][1], index),
                   NextIndex(index))

\* lines 128-154
PreComputeVariableIndices(names, is3d, levels) ==
    IndexLoop(Sorted(AllVars(names, is3d, levels)), <<>>, 0)

\* __init__, line 104: self.variable_indices = pre_compute_variable_indices()
PreCompute ==
    /\ ipc = "config"
    /\ variable_indices' =
           PreComputeVariableIndices(var_names, var_is_3d, vertical_levels)
    /\ ipc' = "done"
    /\ UNCHANGED <<var_names, var_is_3d, vertical_levels>>
    /\ UNCHANGED <<checkpointVars, envVars>>
    /\ UNCHANGED <<modelVars, accVars, unrollVars, trainerVars>>

\* a data configuration, the model under construction
InitIndexer ==
    /\ border_mask = [n \in Nodes |-> 0]
    /\ interior_mask = InteriorOf(border_mask)
    /\ output_std = FALSE
    /\ per_var_std = PerVarStdOf(output_std)
    /\ data_std = DataStd
    /\ n_example_pred = 0
    /\ AccInit
    /\ CheckpointIdle
    /\ SinkIdle
    /\ UnrollIdle
    /\ TrainerIdle
    /\ var_names \in SeqsUpTo(VarNameSet, MaxVars)
    /\ var_is_3d \in Is3dDicts
    /\ vertical_levels \in LevelSeqs
    /\ variable_indices = <<>>
    /\ ipc = "config"

NextIndexer == PreCompute

SpecIndexer == InitIndexer /\ [][NextIndexer]_vars

-----------------------------------------------------------------------------
(* Metric arithmetic: fixed-point numbers, Unit units per 1.0 *)

SumSeq(t) ==
    LET sum[i \in 0..Len(t)] == IF i = 0 THEN 0 ELSE sum[i - 1] + t[i]
    IN  sum[Len(t)]

\* torch.mean(tensor, dim=0)
Mean(t) == SumSeq(t) \div Len(t)

\* the largest metric value of the data and its root
MaxMetric == 16 * Unit

MaxRoot == 4 * Unit

\* the square roots of the metric values, to the fixed-point precision
SqrtTable ==
    [x \in 0..MaxMetric |->
        CHOOSE r \in 0..MaxRoot :
            r * r <= x * Unit /\ x * Unit < (r + 1) * (r + 1)]

\* torch.sqrt
Sqrt(x) == SqrtTable[x]

\* the tensor as it is
RescaleNone(x, std) == x

\* tensor * self.data_std
Rescale(x, std) == (x * std) \div Unit

\* the tensors of the list concatenated last to first
CatReversed(list) ==
    LET cat[i \in 0..Len(list)] ==
            IF i = 0 THEN <<>> ELSE list[i] \o cat[i - 1]
    IN  cat[Len(list)]

\* torch.cat(list, dim=0): the batches' samples, in list order
Cat(list) ==
    LET cat[i \in 0..Len(list)] ==
            IF i = 0 THEN <<>> ELSE cat[i - 1] \o list[i]
    IN  cat[Len(list)]

\* elementwise torch.sqrt of a tensor
SqrtEach(t) == [k \in 1..Len(t) |-> Sqrt(t[k])]

-----------------------------------------------------------------------------
(* The data the trainer feeds to the steps *)

\* what the metric functions and self.loss give for one sample of a batch:
\* its mse, mae, spatially averaged output std and spatial loss
SampleList ==
    << [mse |-> 4 * Unit,  mae |-> 2 * Unit, output_std |-> 1 * Unit,
        spatial |-> 3 * Unit],
       [mse |-> 16 * Unit, mae |-> 4 * Unit, output_std |-> 3 * Unit,
        spatial |-> 5 * Unit] >>

\* the batch size by batch index, the same on every worker (all_gather
\* needs equal shapes): batches of unequal size within a worker
BatchSize(j) == IF j = 1 THEN 2 ELSE 1

\* the number of samples in the batches before batch j
RECURSIVE Offset(_)
Offset(j) == IF j <= 1 THEN 0 ELSE Offset(j - 1) + BatchSize(j - 1)

\* one worker's shard, its batches by batch index: the samples of
\* SampleList in turn, starting with the first or the second
ShardFrom(first) ==
    [j \in 1..MaxBatches |->
        [k \in 1..BatchSize(j) |->
            SampleList[((first + Offset(j) + k) % Len(SampleList)) + 1]]]

Shards == { ShardFrom(first) : first \in 1..Len(SampleList) }

\* the (B, pred_steps, d_f) tensor of one metric for a batch
MetricVals(batch, m) == [k \in 1..Len(batch) |-> batch[k][m]]

\* every rank takes itself for the primary worker
IsGlobalZeroEveryRank(w) == TRUE

\* trainer.is_global_zero, trainer.global_rank == 0
IsGlobalZero(w) == w = 0

-----------------------------------------------------------------------------
(* plot_examples and its callers *)

\* line 438: the parameters plot_examples requires
PlotExamplesRequired == {"batch", "n_examples", "batch_idx"}

\* lines 433-435: test_step passes batch, n_additional_examples and the
\* keyword prediction
TestStepPlotArgs == {"batch", "n_examples"}

\* line 211: predict_step passes batch, batch_idx (bound to n_examples) and
\* the keyword prediction
PredictStepPlotArgs == {"batch", "n_examples"}

\* every call binds, whatever it passes
CallErrorNone(given) == "none"

\* a call leaving a required parameter unbound raises TypeError
CallError(given) == IF PlotExamplesRequired \ given # {} THEN "TypeError"
                    ELSE "none"

Min(a, b) == IF a <= b THEN a ELSE b

\* lines 486-490: plotted_examples is incremented once per plotted slice
PlottedAfter(plotted, n_examples, batch) ==
    plotted + Min(n_examples, Len(batch))

-----------------------------------------------------------------------------
(* The steps *)

\* line 314: the call of self.all_gather: the worker hands in its tensor
\* and blocks
Submit(gs, w, tag, tensor) == Append(gs, [tag |-> tag, tensor |-> tensor])

\* the all_gather a worker is blocked in returns once every worker has
\* handed in its tensor for it
GatherComplete(w) ==
    \A v \in Workers : Len(gathers[v]) >= Len(gathers[w])

\* only the mse list receives the batch's entry
AppendEvalMetricsMseOnly(lists, batch) ==
    [m \in DOMAIN lists |->
        IF m = "mse" THEN Append(lists[m], MetricVals(batch, m))
        ELSE lists[m]]

\* test_step lines 395-411, predict_step lines 182-198: append the batch's
\* mse and mae, and its output_std when output_std is on
AppendEvalMetrics(lists, batch) ==
    [m \in DOMAIN lists |-> Append(lists[m], MetricVals(batch, m))]

\* the trainer starts an epoch of some kind on every worker
StartEpoch(kind) ==
    /\ phase = "idle"
    /\ epochs < MaxEpochs
    /\ kind = "sanity" => epochs = 0
    /\ phase' = kind
    /\ epochs' = epochs + 1
    /\ num_batches' \in 1..MaxBatches
    /\ stage' = [w \in Workers |-> "steps"]
    /\ batch_idx' = [w \in Workers |-> 0]
    /\ epoch_batches' = [w \in Workers |-> <<>>]
    /\ UNCHANGED <<dataset, gathers, metric_k, log_dict, metric_tensor,
                   wandb_logs, error_maps, error>>
    /\ UNCHANGED <<checkpointVars, envVars>>
    /\ UNCHANGED <<modelVars, accVars, indexerVars, unrollVars>>

\* a partial entry for the batch in every list
AfterPredictorErrorPartial(lists, batch) ==
    [m \in DOMAIN lists |-> Append(lists[m], <<>>)]

\* common_step is the first statement of every step (lines 290, 322, 368,
\* 176) and no step has a try block: when single_prediction raises, the
\* step is left before any of its appends
AfterPredictorError(lists, batch) == lists

\* the exception of single_prediction leaves the step and ends the run
CommonStepRaises(w) ==
    /\ stage[w] = "steps"
    /\ batch_idx[w] < num_batches
    /\ LET batch == dataset[w][batch_idx[w] + 1]
       IN  /\ val_metrics' =
                [val_metrics EXCEPT ![w] = AfterPredictorError(@, batch)]
           /\ test_metrics' =
                [test_metrics EXCEPT ![w] = AfterPredictorError(@, batch)]
    /\ error' = "PredictorError"
    /\ phase' = "aborted"
    /\ UNCHANGED <<plotted_examples, spatial_loss_maps, inference_output>>
    /\ UNCHANGED <<epochs, num_batches, dataset, stage, batch_idx, gathers,
                   metric_k, log_dict, metric_tensor, wandb_logs, error_maps,
                   epoch_batches>>
    /\ UNCHANGED <<checkpointVars, envVars>>
    /\ UNCHANGED <<modelVars, indexerVars, unrollVars>>

\* lines 286-302: training_step accumulates nothing; it computes the loss
\* and enters self.log_dict(..., on_step=True, sync_dist=True), which
\* reduces train_loss across the ranks inside the call: a collective the
\* worker is held in until every rank has entered its own
TrainingStepRun(w) ==
    /\ phase = "train"
    /\ stage[w] = "steps"
    /\ batch_idx[w] < num_batches
    /\ gathers' = [gathers EXCEPT
                      ![w] = Submit(@, w, <<"train", "train_loss">>, <<>>)]
    /\ stage' = [stage EXCEPT ![w] = "log_dict"]
    /\ UNCHANGED <<phase, epochs, num_batches, dataset, batch_idx, metric_k,
                   log_dict, metric_tensor, wandb_logs, error_maps, error,
                   epoch_batches>>
    /\ UNCHANGED <<checkpointVars, envVars>>
    /\ UNCHANGED <<modelVars, accVars, indexerVars,
                   unrollVars>>

\* lines 300-303: the reduction of log_dict returns once every rank has
\* entered it; the step returns batch_loss
TrainingStepReturn(w) ==
    /\ phase = "train"
    /\ stage[w] = "log_dict"
    /\ GatherComplete(w)
    /\ batch_idx' = [batch_idx EXCEPT ![w] = @ + 1]
    /\ stage' = [stage EXCEPT
                    ![w] = IF batch_idx[w] + 1 = num_batches
                           THEN "returned" ELSE "steps"]
    /\ UNCHANGED <<phase, epochs, num_batches, dataset, gathers, metric_k,
                   log_dict, metric_tensor, wandb_logs, error_maps, error,
                   epoch_batches>>
    /\ UNCHANGED <<checkpointVars, envVars>>
    /\ UNCHANGED <<modelVars, accVars, indexerVars,
                   unrollVars>>

\* lines 286-303: the step as a whole, common_step (line 290) raising or
\* not
TrainingStep(w) ==
    \/ TrainingStepRun(w)
    \/ TrainingStepReturn(w)
    \/ phase \in {"train"} /\ CommonStepRaises(w)

\* lines 318-350
ValidationStepRun(w) ==
    /\ phase \in {"sanity", "val"}
    /\ stage[w] = "steps"
    /\ batch_idx[w] < num_batches
    /\ LET batch == dataset[w][batch_idx[w] + 1]
           entry_mses == MetricVals(batch, "mse")
       IN  /\ val_metrics' = [val_metrics EXCEPT
                                 ![w]["mse"] = Append(@, entry_mses)]
           /\ epoch_batches' = [epoch_batches EXCEPT ![w] = Append(@, batch)]
    /\ batch_idx' = [batch_idx EXCEPT ![w] = @ + 1]
    /\ UNCHANGED <<plotted_examples, test_metrics, spatial_loss_maps,
                   inference_output>>
    /\ UNCHANGED <<phase, epochs, num_batches, dataset, stage, gathers,
                   metric_k, log_dict, metric_tensor, wandb_logs, error_maps,
                   error>>
    /\ UNCHANGED <<checkpointVars, envVars>>
    /\ UNCHANGED <<modelVars, indexerVars, unrollVars>>

\* line 322: the step as a whole, common_step raising or not
ValidationStep(w) ==
    \/ ValidationStepRun(w)
    \/ phase \in {"sanity", "val"} /\ CommonStepRaises(w)

\* lines 364-435
TestStepRun(w) ==
    /\ phase = "test"
    /\ stage[w] = "steps"
    /\ batch_idx[w] < num_batches
    /\ LET batch == dataset[w][batch_idx[w] + 1]
           n_additional_examples ==
               Min(Len(batch), n_example_pred - plotted_examples[w])
       IN  /\ test_metrics' = [test_metrics EXCEPT
                                  ![w] = AppendEvalMetrics(@, batch)]
           /\ spatial_loss_maps' =
                  [spatial_loss_maps EXCEPT
                      ![w] = Append(@, MetricVals(batch, "spatial"))]
           /\ epoch_batches' = [epoch_batches EXCEPT ![w] = Append(@, batch)]
           /\ IF IsGlobalZero(w) /\ plotted_examples[w] < n_example_pred
              THEN IF CallError(TestStepPlotArgs) # "none"
                   THEN /\ error' = CallError(TestStepPlotArgs)
                        /\ phase' = "aborted"
                        /\ UNCHANGED <<plotted_examples, batch_idx>>
                   ELSE /\ plotted_examples' =
                              [plotted_examples EXCEPT
                                  ![w] = PlottedAfter(@, n_additional_examples,
                                                      batch)]
                        /\ batch_idx' = [batch_idx EXCEPT ![w] = @ + 1]
                        /\ UNCHANGED <<error, phase>>
              ELSE /\ batch_idx' = [batch_idx EXCEPT ![w] = @ + 1]
                   /\ UNCHANGED <<error, phase, plotted_examples>>
    /\ UNCHANGED <<val_metrics, inference_output>>
    /\ UNCHANGED <<epochs, num_batches, dataset, stage, gathers, metric_k,
                   log_dict, metric_tensor, wandb_logs, error_maps>>
    /\ UNCHANGED <<checkpointVars, envVars>>
    /\ UNCHANGED <<modelVars, indexerVars, unrollVars>>

\* line 368: the step as a whole, common_step raising or not
TestStep(w) ==
    \/ TestStepRun(w)
    \/ phase \in {"test"} /\ CommonStepRaises(w)

\* lines 172-212
PredictStepRun(w) ==
    /\ phase = "predict"
    /\ stage[w] = "steps"
    /\ batch_idx[w] < num_batches
    /\ LET batch == dataset[w][batch_idx[w] + 1]
           prediction == <<w, batch_idx[w]>>
       IN  /\ test_metrics' = [test_metrics EXCEPT
                                  ![w] = AppendEvalMetrics(@, batch)]
           /\ spatial_loss_maps' =
                  [spatial_loss_maps EXCEPT
                      ![w] = Append(@, MetricVals(batch, "spatial"))]
           /\ epoch_batches' = [epoch_batches EXCEPT ![w] = Append(@, batch)]
           /\ IF IsGlobalZero(w) /\ CallError(PredictStepPlotArgs) # "none"
              THEN /\ error' = CallError(PredictStepPlotArgs)
                   /\ phase' = "aborted"
                   /\ UNCHANGED <<plotted_examples, batch_idx,
                                  inference_output>>
              ELSE /\ plotted_examples' =
                         [plotted_examples EXCEPT
                             ![w] = IF IsGlobalZero(w)
                                    THEN PlottedAfter(@, batch_idx[w], batch)
                                    ELSE @]
                   /\ inference_output' =
                         [inference_output EXCEPT ![w] = Append(@, prediction)]
                   /\ batch_idx' = [batch_idx EXCEPT ![w] = @ + 1]
                   /\ UNCHANGED <<error, phase>>
    /\ UNCHANGED val_metrics
    /\ UNCHANGED <<epochs, num_batches, dataset, stage, gathers, metric_k,
                   log_dict, metric_tensor, wandb_logs, error_maps>>
    /\ UNCHANGED <<checkpointVars, envVars>>
    /\ UNCHANGED <<modelVars, indexerVars, unrollVars>>

\* line 176: the step as a whole, common_step raising or not
PredictStep(w) ==
    \/ PredictStepRun(w)
    \/ phase \in {"predict"} /\ CommonStepRaises(w)

-----------------------------------------------------------------------------
(* all_gather_cat *)

\* lines 617 and 652: the condition the all_gather calls sit under: none,
\* every worker calls them
GatherGuardRankZero(w) == w = 0

GatherGuard(w) == TRUE

\* the ranks, in the order all_gather stacks their tensors
RankOrder == <<0, 1>>

\* line 314: all_gather(...).flatten(0, 1) of the g-th collective
GatheredFrom(ranks, g) ==
    Cat([i \in 1..Len(ranks) |-> gathers[ranks[i]][g].tensor])

AllGatherCat(w) == GatheredFrom(RankOrder, Len(gathers[w]))

\* all_gather_cat(tensor) where the code calls it
GatherCall(gs, w, tag, tensor) ==
    IF GatherGuard(w) THEN Submit(gs, w, tag, tensor) ELSE gs

\* what the worker goes on with: the gathered tensor
GatherResult(w, tensor) ==
    IF GatherGuard(w) THEN AllGatherCat(w) ELSE tensor

\* the worker is not held up in an all_gather
GatherReturns(w) == GatherGuard(w) => GatherComplete(w)

-----------------------------------------------------------------------------
(* aggregate_and_plot_metrics and the epoch-end hooks *)

\* line 626: "mse" in metric_name, over the metric names of the model
ContainsMse(metric_name) == metric_name = "mse"

\* line 628: metric_name.replace("mse", "rmse")
RmseName(metric_name) ==
    IF ContainsMse(metric_name) THEN "rmse" ELSE metric_name

\* lines 622-631: mean over the gathered batch axis, square root for an
\* mse, rescaling by data_std
ReduceMetricRootFirst(metric_name, tensor) ==
    Rescale(IF ContainsMse(metric_name) THEN Mean(SqrtEach(tensor))
            ELSE Mean(tensor), data_std)

ReduceMetric(metric_name, tensor) ==
    LET metric_tensor_averaged == Mean(tensor)
        rooted == IF ContainsMse(metric_name)
                  THEN Sqrt(metric_tensor_averaged)
                  ELSE metric_tensor_averaged
    IN  Rescale(rooted, data_std)

\* lines 561-605 (no watched metrics): the log entry of one metric
CreateMetricLogDict(metric_rescaled, prefix, metric_name) ==
    << [name |-> <<prefix, metric_name>>, value |-> metric_rescaled] >>

\* lines 360-361: metric_list.clear() for every list
ClearListsKeep(lists) == lists

ClearLists(lists) == [m \in DOMAIN lists |-> <<>>]

\* the prefix and the metrics dict of the hook a worker runs
HookPrefix == IF phase = "test" THEN "test" ELSE "val"

HookOrder ==
    IF phase = "test" THEN TestMetricOrder(output_std) ELSE ValMetricOrder

HookLists(w) == IF phase = "test" THEN test_metrics[w] ELSE val_metrics[w]

\* lines 615-619: aggregate_and_plot_metrics up to its first all_gather
EnterAggregate(w) ==
    /\ log_dict' = [log_dict EXCEPT ![w] = <<>>]
    /\ metric_k' = [metric_k EXCEPT ![w] = 0]
    /\ gathers' = [gathers EXCEPT
                      ![w] = GatherCall(@, w, <<HookPrefix, HookOrder[1]>>,
                                        Cat(HookLists(w)[HookOrder[1]]))]
    /\ stage' = [stage EXCEPT ![w] = "gather"]

\* lines 352-357: on_validation_epoch_end up to the first all_gather
OnValidationEpochEnd(w) ==
    /\ phase \in {"sanity", "val"}
    /\ stage[w] = "steps"
    /\ batch_idx[w] = num_batches
    /\ EnterAggregate(w)
    /\ UNCHANGED <<phase, epochs, num_batches, dataset, batch_idx,
                   metric_tensor, wandb_logs, error_maps, error,
                   epoch_batches>>
    /\ UNCHANGED <<checkpointVars, envVars>>
    /\ UNCHANGED <<modelVars, accVars, indexerVars, unrollVars>>

\* lines 643-649: on_test_epoch_end up to the first all_gather
OnTestEpochEnd(w) ==
    /\ phase = "test"
    /\ stage[w] = "steps"
    /\ batch_idx[w] = num_batches
    /\ EnterAggregate(w)
    /\ UNCHANGED <<phase, epochs, num_batches, dataset, batch_idx,
                   metric_tensor, wandb_logs, error_maps, error,
                   epoch_batches>>
    /\ UNCHANGED <<checkpointVars, envVars>>
    /\ UNCHANGED <<modelVars, accVars, indexerVars, unrollVars>>

\* rank 0 logs whether or not the trainer is sanity checking
LogsToWandbInSanity(w) == IsGlobalZero(w)

\* line 639: self.trainer.is_global_zero and not
\* self.trainer.sanity_checking
LogsToWandb(w) == IsGlobalZero(w) /\ phase # "sanity"

\* lines 617-641 and what follows in the hook: the all_gather of a metric
\* returns; rank 0 reduces it; the worker runs on to its next all_gather
\* or, in on_validation_epoch_end, to the end of the hook
AggregateAndPlotMetricsRun(w) ==
    /\ phase \in {"sanity", "val", "test"}
    /\ stage[w] = "gather"
    /\ GatherReturns(w)
    /\ LET k == metric_k[w] + 1
           metric_name == HookOrder[k]
           gathered == GatherResult(w, Cat(HookLists(w)[metric_name]))
           metric_rescaled == ReduceMetric(metric_name, gathered)
           new_log ==
               IF IsGlobalZero(w)
               THEN log_dict[w] \o CreateMetricLogDict(
                        metric_rescaled, HookPrefix, RmseName(metric_name))
               ELSE log_dict[w]
       IN  /\ metric_tensor' = [metric_tensor EXCEPT ![w] = gathered]
           /\ metric_k' = [metric_k EXCEPT ![w] = k]
           /\ log_dict' = [log_dict EXCEPT ![w] = new_log]
           /\ error_maps' =
                  IF IsGlobalZero(w)
                  THEN error_maps \cup
                         {[prefix |-> HookPrefix,
                           metric_name |-> RmseName(metric_name),
                           metric_tensor |-> metric_rescaled,
                           gathered |-> gathered]}
                  ELSE error_maps
           /\ IF k < Len(HookOrder)
              THEN \* the loop goes on: lines 616-619 for the next metric
                   /\ gathers' =
                        [gathers EXCEPT
                            ![w] = GatherCall(
                                       @, w, <<HookPrefix, HookOrder[k + 1]>>,
                                       Cat(HookLists(w)[HookOrder[k + 1]]))]
                   /\ UNCHANGED <<stage, wandb_logs, val_metrics>>
              ELSE \* lines 639-641: wandb.log(log_dict)
                   /\ wandb_logs' =
                        IF LogsToWandb(w)
                        THEN Append(wandb_logs, new_log)
                        ELSE wandb_logs
                   /\ IF phase = "test"
                      THEN \* lines 652-654: the spatial loss maps
                           /\ gathers' =
                                [gathers EXCEPT
                                    ![w] = GatherCall(
                                               @, w, <<"test", "spatial_loss">>,
                                               Cat(spatial_loss_maps[w]))]
                           /\ stage' = [stage EXCEPT ![w] = "spatial_gather"]
                           /\ UNCHANGED val_metrics
                      ELSE \* lines 359-361: clear the validation lists
                           /\ val_metrics' =
                                [val_metrics EXCEPT ![w] = ClearLists(@)]
                           /\ stage' = [stage EXCEPT ![w] = "returned"]
                           /\ UNCHANGED gathers
    /\ UNCHANGED <<plotted_examples, test_metrics, spatial_loss_maps,
                   inference_output>>
    /\ UNCHANGED <<phase, epochs, num_batches, dataset, batch_idx, error,
                   epoch_batches>>
    /\ UNCHANGED <<checkpointVars, envVars>>
    /\ UNCHANGED <<modelVars, indexerVars, unrollVars>>

\* lines 574-590: create_metric_log_dict calls vis.plot_error_map,
\* wandb.Image, savefig and np.savetxt, on rank 0
SinkFails(w) == IsGlobalZero(w) /\ ~sink_ok

\* the sink raises in the first create_metric_log_dict of the hook: no
\* try block in aggregate_and_plot_metrics or in the hooks, the exception
\* leaves the hook before lines 360-361 and ends the run
SinkRaises(w) ==
    /\ error' = "SinkError"
    /\ phase' = "aborted"
    /\ UNCHANGED accVars
    /\ UNCHANGED <<epochs, num_batches, dataset, stage, batch_idx, gathers,
                   metric_k, log_dict, metric_tensor, wandb_logs, error_maps,
                   epoch_batches>>
    /\ UNCHANGED <<checkpointVars, envVars>>
    /\ UNCHANGED <<modelVars, indexerVars, unrollVars>>

\* lines 607-641: one metric of aggregate_and_plot_metrics, the sink
\* raising or not
AggregateAndPlotMetrics(w) ==
    /\ phase \in {"sanity", "val", "test"}
    /\ stage[w] = "gather"
    /\ GatherReturns(w)
    /\ IF SinkFails(w) THEN SinkRaises(w) ELSE AggregateAndPlotMetricsRun(w)

\* lines 652-693: the all_gather of the spatial loss maps returns; rank 0
\* logs their mean; the list is cleared and on_test_epoch_end returns
OnTestEpochEndSpatial(w) ==
    /\ phase = "test"
    /\ stage[w] = "spatial_gather"
    /\ GatherReturns(w)
    /\ LET spatial_loss_tensor == GatherResult(w, Cat(spatial_loss_maps[w]))
           mean_spatial_loss == Mean(spatial_loss_tensor)
       IN  /\ metric_tensor' = metric_tensor
           /\ wandb_logs' =
                  IF IsGlobalZero(w)
                  THEN Append(wandb_logs,
                              << [name |-> <<"test", "loss">>,
                                  value |-> mean_spatial_loss] >>)
                  ELSE wandb_logs
    /\ spatial_loss_maps' = [spatial_loss_maps EXCEPT ![w] = <<>>]
    /\ stage' = [stage EXCEPT ![w] = "returned"]
    /\ UNCHANGED <<plotted_examples, val_metrics, test_metrics,
                   inference_output>>
    /\ UNCHANGED <<phase, epochs, num_batches, dataset, batch_idx, gathers,
                   metric_k, log_dict, error_maps, error, epoch_batches>>
    /\ UNCHANGED <<checkpointVars, envVars>>
    /\ UNCHANGED <<modelVars, indexerVars, unrollVars>>

\* lines 760-763: save_pred_as_grib calls self.precompute_variable_indices,
\* a name ARModel does not define
SavePredAsGribError == "AttributeError"

\* lines 695-743: on_predict_epoch_end, rank_zero_only
OnPredictEpochEnd(w) ==
    /\ phase = "predict"
    /\ stage[w] = "steps"
    /\ batch_idx[w] = num_batches
    /\ IF ~IsGlobalZero(w)
       THEN \* rank_zero_only: the body does not run
            /\ stage' = [stage EXCEPT ![w] = "returned"]
            /\ UNCHANGED <<spatial_loss_maps, phase, error>>
       ELSE IF inference_output[w] # <<>>
       THEN \* line 718, first prediction
            /\ error' = SavePredAsGribError
            /\ phase' = "aborted"
            /\ UNCHANGED <<spatial_loss_maps, stage>>
       ELSE \* line 743
            /\ spatial_loss_maps' = [spatial_loss_maps EXCEPT ![w] = <<>>]
            /\ stage' = [stage EXCEPT ![w] = "returned"]
            /\ UNCHANGED <<phase, error>>
    /\ UNCHANGED <<plotted_examples, val_metrics, test_metrics,
                   inference_output>>
    /\ UNCHANGED <<epochs, num_batches, dataset, batch_idx, gathers, metric_k,
                   log_dict, metric_tensor, wandb_logs, error_maps,
                   epoch_batches>>
    /\ UNCHANGED <<checkpointVars, envVars>>
    /\ UNCHANGED <<modelVars, indexerVars, unrollVars>>

\* every worker is back from the epoch-end hook: the epoch is over
EndEpoch ==
    /\ phase \in {"train", "sanity", "val", "test", "predict"}
    /\ \A w \in Workers : stage[w] = "returned"
    /\ phase' = "idle"
    /\ UNCHANGED <<epochs, num_batches, dataset, stage, batch_idx, gathers,
                   metric_k, log_dict, metric_tensor, wandb_logs, error_maps,
                   error, epoch_batches>>
    /\ UNCHANGED <<checkpointVars, envVars>>
    /\ UNCHANGED <<modelVars, accVars, indexerVars, unrollVars>>

-----------------------------------------------------------------------------
(* The model under a trainer *)

EpochKinds == {"train", "sanity", "val", "test", "predict"}

Init ==
    /\ border_mask = [n \in Nodes |-> IF n = 1 THEN 1 ELSE 0]
    /\ interior_mask = InteriorOf(border_mask)
    /\ output_std \in BOOLEAN
    /\ per_var_std = PerVarStdOf(output_std)
    /\ data_std = DataStd
    /\ n_example_pred \in {0 - 1, 0, 1}
    /\ AccInit
    /\ CheckpointIdle
    /\ sink_ok \in BOOLEAN
    /\ IndexerIdle
    /\ UnrollIdle
    /\ phase = "idle"
    /\ epochs = 0
    /\ num_batches = 0
    /\ dataset \in [Workers -> Shards]
    /\ stage = [w \in Workers |-> "idle"]
    /\ batch_idx = [w \in Workers |-> 0]
    /\ gathers = [w \in Workers |-> <<>>]
    /\ metric_k = [w \in Workers |-> 0]
    /\ log_dict = [w \in Workers |-> <<>>]
    /\ metric_tensor = [w \in Workers |-> <<>>]
    /\ wandb_logs = <<>>
    /\ error_maps = {}
    /\ error = "none"
    /\ epoch_batches = [w \in Workers |-> <<>>]

\* what one worker can do
WorkerNext(w) ==
    \/ TrainingStep(w)
    \/ ValidationStep(w)
    \/ TestStep(w)
    \/ PredictStep(w)
    \/ OnValidationEpochEnd(w)
    \/ OnTestEpochEnd(w)
    \/ AggregateAndPlotMetrics(w)
    \/ OnTestEpochEndSpatial(w)
    \/ OnPredictEpochEnd(w)

Next ==
    \/ \E kind \in EpochKinds : StartEpoch(kind)
    \/ \E w \in Workers : WorkerNext(w)
    \/ EndEpoch

Spec == Init /\ [][Next]_vars

\* every worker keeps running while it can and the trainer ends an epoch
\* whose hooks have all returned
FairSpec ==
    /\ Init
    /\ [][Next]_vars
    /\ \A w \in Workers : WF_vars(WorkerNext(w))
    /\ WF_vars(EndEpoch)

-----------------------------------------------------------------------------
(* on_load_checkpoint *)

\* the two prefixes of the migration, lines 849-851
OldPrefix == "g2m_gnn.grid_mlp"

NewPrefix == "encoding_grid_mlp"

\* state_dict keys, as the pieces the migration tells apart: a key is the
\* sequence of its pieces, a prefix being one piece
KeySeq ==
    << <<OldPrefix, ".0.weight">>,
       <<OldPrefix, ".0.bias">>,
       <<OldPrefix, "_extra.weight">>,
       <<NewPrefix, ".0.weight">>,
       <<NewPrefix, ".0.bias">>,
       <<"processor", ".0.weight">> >>

\* the state dicts: any set of the keys, each key with a value of its own
StateDicts ==
    { [k \in { KeySeq[i] : i \in K } |->
          CHOOSE i \in K : KeySeq[i] = k] : K \in SUBSET (1..Len(KeySeq)) }

\* line 841: the key whose presence triggers the migration
TriggerKey == <<OldPrefix, ".0.weight">>

\* line 844: key.startswith("g2m_gnn.grid_mlp")
StartsWithOld(key) == key[1] = OldPrefix

\* lines 842-847: the keys to replace
ReplaceKeys(loaded_state_dict) ==
    { key \in DOMAIN loaded_state_dict : StartsWithOld(key) }

\* a key with the suffixes .0.weight and .0.bias exchanged
NewKeySwapSuffix(old_key) ==
    [i \in DOMAIN old_key |->
        IF old_key[i] = ".0.weight" THEN ".0.bias"
        ELSE IF old_key[i] = ".0.bias" THEN ".0.weight" ELSE old_key[i]]

\* lines 849-851: old_key.replace("g2m_gnn.grid_mlp", "encoding_grid_mlp")
NewKey(old_key) ==
    [i \in DOMAIN old_key |->
        IF old_key[i] = OldPrefix THEN NewPrefix ELSE old_key[i]]

\* lines 848-853: every old key's value moves to its new key
RenameKeys(loaded_state_dict) ==
    LET replace_keys == ReplaceKeys(loaded_state_dict)
        kept == DOMAIN loaded_state_dict \ replace_keys
        new_keys == { NewKey(old_key) : old_key \in replace_keys }
    IN  [key \in kept \cup new_keys |->
            IF key \in new_keys
            THEN loaded_state_dict[
                     CHOOSE old_key \in replace_keys : NewKey(old_key) = key]
            ELSE loaded_state_dict[key]]

\* lines 837-853
MigrateStateDict(loaded_state_dict) ==
    IF TriggerKey \in DOMAIN loaded_state_dict
    THEN RenameKeys(loaded_state_dict)
    ELSE loaded_state_dict

\* lines 854-856: without restore_opt the optimizer states are replaced by
\* those of a newly configured optimizer
OptimizerStates(restore, saved) == IF restore THEN saved ELSE <<"new">>

\* lines 833-856
OnLoadCheckpoint ==
    /\ Len(ckpt_log) <= MaxLoads
    /\ checkpoint' =
         [state_dict |-> MigrateStateDict(checkpoint.state_dict),
          optimizer_states |->
              OptimizerStates(restore_opt, checkpoint.optimizer_states)]
    /\ ckpt_log' = Append(ckpt_log, checkpoint')
    /\ UNCHANGED restore_opt
    /\ UNCHANGED <<modelVars, accVars, indexerVars, unrollVars, trainerVars,
                   envVars>>

InitCheckpoint ==
    /\ border_mask = [n \in Nodes |-> 0]
    /\ interior_mask = InteriorOf(border_mask)
    /\ output_std = FALSE
    /\ per_var_std = PerVarStdOf(output_std)
    /\ data_std = DataStd
    /\ n_example_pred = 0
    /\ AccInit
    /\ IndexerIdle
    /\ UnrollIdle
    /\ TrainerIdle
    /\ SinkIdle
    /\ restore_opt \in BOOLEAN
    /\ \E d \in StateDicts :
         checkpoint = [state_dict |-> d, optimizer_states |-> <<"saved">>]
    /\ ckpt_log = <<checkpoint>>

NextCheckpoint == OnLoadCheckpoint

SpecCheckpoint == InitCheckpoint /\ [][NextCheckpoint]_vars

-----------------------------------------------------------------------------
(* Properties of unroll_prediction *)

\* the state emitted at step j of the running rollout; steps 0 and -1 are
\* the two initial states
Emitted(j) ==
    IF j >= 1 THEN prediction_list[j]
    ELSE IF j = 0 THEN init_states[2] ELSE init_states[1]

\* C1: at every step and every node whose border_mask is 1, the emitted
\* prediction equals true_states at that node, whatever single_prediction
\* returned.
C1_BorderEqualsTruth ==
    \A k \in 1..Len(prediction_list) : \A n \in Nodes :
        border_mask[n] = 1 => prediction_list[k][n] = true_states[k][n]

\* C2: single_prediction is called once per step, in ascending step order,
\* the i-th call with (emitted[i-1], emitted[i-2], forcing[i]): the states
\* fed back are the blended emitted states.
C2_FeedbackIsEmitted ==
    upc \in {"loop", "done"} =>
        /\ Len(calls) = step_i
        /\ upc = "done" => Len(calls) = Len(forcing_features)
        /\ \A k \in 1..Len(calls) :
             calls[k] = [prev_state |-> Emitted(k - 1),
                         prev_prev_state |-> Emitted(k - 2),
                         forcing |-> forcing_features[k]]

\* a finished two-step rollout whose first emitted state differs from the
\* candidate single_prediction returned for it
C2_Witness ==
    /\ upc = "done"
    /\ Len(calls) >= 2
    /\ cands[1].state # prediction_list[1]
    /\ calls[2].prev_state = prediction_list[1]

\* C3: a rollout with steps = 0 returns normally with an empty prediction
\* sequence and calls single_prediction not once.
C3_ZeroStepsIsNoOp ==
    (upc = "done" /\ Len(forcing_features) = 0) =>
        /\ unroll_result.raised = "none"
        /\ unroll_result.prediction = <<>>
        /\ calls = <<>>

-----------------------------------------------------------------------------
(* Properties of pre_compute_variable_indices *)

\* all the index lists of a mapping, concatenated
RECURSIVE CountIn(_, _)
CountIn(x, seq) ==
    IF seq = <<>> THEN 0
    ELSE (IF seq[1] = x THEN 1 ELSE 0) + CountIn(x, Tail(seq))

\* how often integer x occurs in the index lists of the mapping
RECURSIVE Occurrences(_, _, _)
Occurrences(x, indices, names) ==
    IF names = {} THEN 0
    ELSE LET n == CHOOSE m \in names : TRUE
         IN  CountIn(x, indices[n]) + Occurrences(x, indices, names \ {n})

\* the number of (name, level) pairs: one per name and level when the
\* var_is_3d test of line 138 passes, else one per name
TotalLength ==
    IF DOMAIN var_is_3d # {}
    THEN Len(var_names) * Len(vertical_levels)
    ELSE Len(var_names)

IndexerDone == ipc = "done"

\* the number of indices the mapping holds for a name
IndexCount(name) ==
    IF name \in DOMAIN variable_indices
    THEN Len(variable_indices[name]) ELSE 0

\* C9: the index lists together hold every integer of [0, total_length)
\* exactly once, and nothing else.
C9_IndicesPartition ==
    IndexerDone =>
        /\ \A x \in 0..(TotalLength - 1) :
             Occurrences(x, variable_indices, DOMAIN variable_indices) = 1
        /\ \A n \in DOMAIN variable_indices :
             \A k \in 1..Len(variable_indices[n]) :
                 variable_indices[n][k] \in 0..(TotalLength - 1)

\* two variables with two levels each: four indices over two lists
C9_Witness ==
    /\ IndexerDone
    /\ Cardinality(DOMAIN variable_indices) = 2
    /\ TotalLength = 4

\* C10: a name whose var_is_3d entry is false gets exactly one index, a
\* name whose entry is true gets len(vertical_levels) indices.
C10_PerVariableDimension ==
    (/\ IndexerDone
     /\ DOMAIN var_is_3d = VarNameSet
     /\ \A j, k \in 1..Len(var_names) : j # k => var_names[j] # var_names[k])
    => \A k \in 1..Len(var_names) :
         IndexCount(var_names[k]) =
             IF var_is_3d[var_names[k]] THEN Len(vertical_levels) ELSE 1

-----------------------------------------------------------------------------
(* Properties of the metric aggregation *)

\* what the floors of the fixed-point mean, root and product can take
\* off a value
RoundOff == 2 * (DataStd \div Unit) + 1

\* C4: every metric whose name contains "mse" is emitted, under its rmse
\* name, as sqrt(mean over all gathered per-sample values) * data_std:
\* the root is taken after the mean over the whole gathered batch axis,
\* so the square of the value is the mean times the square of data_std.
C4_RootAfterMean ==
    \A e \in error_maps :
        /\ e.metric_name # "mse"
        /\ e.metric_name = "rmse" =>
             LET n == Len(e.gathered)
                 v == e.metric_tensor
                 mean_n == SumSeq(e.gathered) * data_std * data_std
             IN  /\ v * v * n * Unit <= mean_n
                 /\ mean_n < (v + RoundOff) * (v + RoundOff) * n * Unit

\* the spec's scenario: samples 4.0 and 16.0 with mean 10.0 and std 2.0
\* give sqrt(10) * 2 = 6.32, not (2 + 4) / 2 * 2 = 6.00
C4_Witness ==
    \E e \in error_maps :
        /\ e.metric_name = "rmse"
        /\ 4 * Unit \in Range(e.gathered)
        /\ 16 * Unit \in Range(e.gathered)
        /\ SumSeq(e.gathered) = 10 * Unit * Len(e.gathered)
        /\ e.metric_tensor = 632

\* the mse values the steps of the running epoch appended, rank by rank
RECURSIVE BatchesMse(_)
BatchesMse(batches) ==
    IF batches = <<>> THEN <<>>
    ELSE MetricVals(batches[1], "mse") \o BatchesMse(Tail(batches))

RECURSIVE EpochMse(_)
EpochMse(ranks) ==
    IF ranks = <<>> THEN <<>>
    ELSE BatchesMse(epoch_batches[ranks[1]]) \o EpochMse(Tail(ranks))

\* C5: once on_validation_epoch_end has returned, every list of val_metrics
\* is empty, and what the hook aggregated is exactly what the
\* validation_step calls of this epoch appended.
C5_ValListsClearedPerEpoch ==
    \A w \in Workers :
        (phase \in {"sanity", "val"} /\ stage[w] = "returned") =>
            /\ \A m \in DOMAIN val_metrics[w] : val_metrics[w][m] = <<>>
            /\ metric_tensor[w] = EpochMse(RankOrder)

\* the second validation epoch of a run has been aggregated
C5_Witness ==
    /\ phase = "val"
    /\ epochs = 2
    /\ \A w \in Workers : stage[w] = "returned"
    /\ Len(metric_tensor[0]) >= 4

\* C6: once on_test_epoch_end has returned, every list of test_metrics and
\* spatial_loss_maps is empty.
C6_TestListsCleared ==
    \A w \in Workers :
        (phase = "test" /\ stage[w] = "returned") =>
            /\ \A m \in DOMAIN test_metrics[w] : test_metrics[w][m] = <<>>
            /\ spatial_loss_maps[w] = <<>>

\* C7: once on_predict_epoch_end has returned on a worker, the batches its
\* predict_step calls accumulated have been aggregated and test_metrics,
\* spatial_loss_maps and inference_output are empty on it.
C7_PredictEpochFinalized ==
    \A w \in Workers :
        (phase = "predict" /\ stage[w] = "returned") =>
            /\ \A m \in DOMAIN test_metrics[w] : test_metrics[w][m] = <<>>
            /\ spatial_loss_maps[w] = <<>>
            /\ inference_output[w] = <<>>
            /\ gathers[w] # <<>>

\* every worker has entered the epoch-end hook of a validation or test epoch
AllInHook ==
    /\ phase \in {"sanity", "val", "test"}
    /\ \A w \in Workers : stage[w] \in {"gather", "spatial_gather", "returned"}

AllReturned == \A w \in Workers : stage[w] = "returned"

\* the workers' all_gather calls so far are calls for the same tensors, in
\* the same order
SameGatherSequence ==
    \A v, w \in Workers :
        \A k \in 1..Min(Len(gathers[v]), Len(gathers[w])) :
            gathers[v][k].tag = gathers[w][k].tag

\* C8: the workers issue the same sequence of all_gather calls whatever
\* their rank, and once every worker has entered the epoch-end hook every
\* worker returns from it.
C8_GatherSymmetry ==
    /\ []SameGatherSequence
    /\ AllInHook ~> AllReturned

-----------------------------------------------------------------------------
(* Properties of on_load_checkpoint *)

\* the state dict as given (i = 0) and after the i-th load
StateDictAfter(i) == ckpt_log[i + 1].state_dict

\* C11: applying the key migration of on_load_checkpoint twice gives the
\* same state dict, keys and values, as applying it once; the keys that
\* carry the new prefix after the first load are not touched by the second.
C11_MigrationIdempotent ==
    Len(ckpt_log) >= 3 =>
        /\ StateDictAfter(2) = StateDictAfter(1)
        /\ \A key \in DOMAIN StateDictAfter(1) :
               key[1] = NewPrefix =>
                   /\ key \in DOMAIN StateDictAfter(2)
                   /\ StateDictAfter(2)[key] = StateDictAfter(1)[key]

\* an old checkpoint with the weight and the bias of the grid MLP has been
\* loaded twice: both keys were renamed by the first load
C11_Witness ==
    /\ Len(ckpt_log) >= 3
    /\ <<OldPrefix, ".0.weight">> \in DOMAIN StateDictAfter(0)
    /\ <<OldPrefix, ".0.bias">> \in DOMAIN StateDictAfter(0)
    /\ <<NewPrefix, ".0.weight">> \in DOMAIN StateDictAfter(2)
    /\ <<NewPrefix, ".0.bias">> \in DOMAIN StateDictAfter(2)
    /\ StateDictAfter(1) # StateDictAfter(0)

-----------------------------------------------------------------------------
(* Properties of the model state under the trainer *)

\* border_mask + interior_mask is all ones
MasksSumToOne == \A n \in Nodes : border_mask[n] + interior_mask[n] = 1

\* C12: in every reachable state, after construction and after any
\* sequence of steps and epoch-end hooks, border_mask + interior_mask is 1
\* at every grid node, and no operation modifies either mask.
C12_MaskInvariant ==
    /\ []MasksSumToOne
    /\ [][border_mask' = border_mask /\ interior_mask' = interior_mask]_vars

\* two epochs with their steps and hooks have run, and the grid has a
\* border node and an interior node
C12_Witness ==
    /\ epochs = 2
    /\ phase = "idle"
    /\ \E w \in Workers : gathers[w] # <<>>
    /\ \E n \in Nodes : border_mask[n] = 1
    /\ \E n \in Nodes : interior_mask[n] = 1

-----------------------------------------------------------------------------
(* Properties of unroll_prediction: uncertainty output, frame, interior *)

\* the rollout has returned or raised, after at least one step
RolloutDone == upc = "done" /\ Len(forcing_features) >= 1

\* single_prediction returned None for the std on every call
EveryStdNone == \A k \in 1..Len(cands) : cands[k].std = None

\* C13: with output_std on and single_prediction returning None for the
\* std on every call of a rollout of at least one step, unroll_prediction
\* fails with a ConfigurationError.
C13_NoneStdIsConfigurationError ==
    (RolloutDone /\ output_std /\ EveryStdNone) =>
        unroll_result.raised = "ConfigurationError"

\* C14: with output_std off the returned pred_std is the static vector
\* registered at construction, whatever std single_prediction returned;
\* with output_std on it is the sequence, one element per step, of the
\* stds the calls of single_prediction returned; output_std never changes.
C14_UncertaintyMode ==
    /\ [](RolloutDone /\ unroll_result.raised = "none" =>
            IF output_std
            THEN /\ Len(unroll_result.pred_std) = Len(forcing_features)
                 /\ \A k \in 1..Len(forcing_features) :
                        unroll_result.pred_std[k] = cands[k].std
            ELSE unroll_result.pred_std = StaticStd)
    /\ [][output_std' = output_std]_vars

\* a two-step rollout has returned the static vector although
\* single_prediction returned a std at one step and None at the other
C14_Witness ==
    /\ upc = "done"
    /\ ~output_std
    /\ Len(cands) = 2
    /\ cands[1].std # None
    /\ cands[2].std = None
    /\ unroll_result.raised = "none"
    /\ unroll_result.pred_std = StaticStd

\* C19: unroll_prediction changes no model state - the metric lists,
\* spatial_loss_maps, inference_output, plotted_examples, the masks,
\* per_var_std - and does not modify init_states, forcing_features or
\* true_states.
C19_RolloutHasNoSideEffects ==
    [][UNCHANGED <<val_metrics, test_metrics, spatial_loss_maps,
                   inference_output, plotted_examples, border_mask,
                   interior_mask, per_var_std, init_states,
                   forcing_features, true_states>>]_vars

\* a two-step rollout has returned with states that differ from its
\* initial states, and nothing was accumulated
C19_Witness ==
    /\ upc = "done"
    /\ Len(prediction_list) = 2
    /\ prediction_list[1] # init_states[2]
    /\ unroll_result.raised = "none"
    /\ \A w \in Workers : inference_output[w] = <<>>

\* C20: at every step i and every node whose interior_mask is 1, the
\* emitted prediction is the candidate the i-th call of single_prediction
\* returned at that node; true_states does not show there.
C20_InteriorIsCandidate ==
    \A k \in 1..Len(prediction_list) : \A n \in Nodes :
        interior_mask[n] = 1 => prediction_list[k][n] = cands[k].state[n]

-----------------------------------------------------------------------------
(* Properties of the steps under failures *)

\* C15: when single_prediction raises during a validation, test or predict
\* step, the exception leaves the step uncaught (the run ends with it) and
\* the step has appended nothing to val_metrics, test_metrics,
\* spatial_loss_maps or inference_output.
C15_PredictorErrorAppendsNothing ==
    [][error' = "PredictorError" =>
          /\ phase' = "aborted"
          /\ UNCHANGED <<val_metrics, test_metrics, spatial_loss_maps,
                         inference_output>>]_vars

\* single_prediction raised in the second test step of a worker: the
\* lists hold the entries of its first step and nothing of the second
C15_Witness ==
    /\ error = "PredictorError"
    /\ \E w \in Workers :
         /\ batch_idx[w] = 1
         /\ num_batches >= 2
         /\ Len(test_metrics[w]["mse"]) = 1
         /\ Len(spatial_loss_maps[w]) = 1
         /\ \A v \in Workers \ {w} : batch_idx[v] = num_batches

\* C16: when the sink fails during an epoch-end finalize, the accumulators
\* end as if it had succeeded: the lists of the epoch are cleared on the
\* worker whose finalize it failed in.
C16_SinkFailureKeepsMetricState ==
    error = "SinkError" =>
        /\ \A m \in DOMAIN val_metrics[0] : val_metrics[0][m] = <<>>
        /\ spatial_loss_maps[0] = <<>>

-----------------------------------------------------------------------------
(* Properties of the aggregation: rescaling and order *)

\* what the floors of the fixed-point mean and product can take off a
\* value that is not rooted
RoundOffLinear == (DataStd \div Unit) + 1

\* v is mean(gathered) * data_std, up to the rounding
IsScaledMean(v, gathered) ==
    LET n == Len(gathered)
        scaled_sum == SumSeq(gathered) * data_std
    IN  /\ v * Unit * n <= scaled_sum
        /\ scaled_sum < (v + RoundOffLinear) * Unit * n

\* v is sqrt(mean(gathered)) * data_std, up to the rounding
IsScaledRootOfMean(v, gathered) ==
    LET n == Len(gathered)
        scaled_sum == SumSeq(gathered) * data_std * data_std
    IN  /\ v * v * n * Unit <= scaled_sum
        /\ scaled_sum < (v + RoundOff) * (v + RoundOff) * n * Unit

\* C17: for every metric of the aggregated dictionary - mse, mae and
\* output_std alike - the tensor handed to create_metric_log_dict is the
\* reduced tensor (the mean; its square root for mse) times data_std.
C17_EveryMetricRescaled ==
    \A e \in error_maps :
        /\ e.metric_name \in {"rmse", "mae", "output_std"}
        /\ IF e.metric_name = "rmse"
           THEN IsScaledRootOfMean(e.metric_tensor, e.gathered)
           ELSE IsScaledMean(e.metric_tensor, e.gathered)

\* a test epoch with output_std on has handed over all three metrics, the
\* mae and the output_std at twice their means
C17_Witness ==
    /\ \E e \in error_maps : e.prefix = "test" /\ e.metric_name = "rmse"
    /\ \E e \in error_maps :
         /\ e.metric_name = "mae"
         /\ e.metric_tensor = 2 * (SumSeq(e.gathered) \div Len(e.gathered))
         /\ e.metric_tensor > 0
    /\ \E e \in error_maps :
         /\ e.metric_name = "output_std"
         /\ e.metric_tensor = 2 * (SumSeq(e.gathered) \div Len(e.gathered))
         /\ e.metric_tensor > 0

\* the last n elements of a sequence
LastN(seq, n) == SubSeq(seq, Len(seq) - n + 1, Len(seq))

\* the samples' values of metric m in the batches, batch after batch
RECURSIVE BatchesVals(_, _)
BatchesVals(batches, m) ==
    IF batches = <<>> THEN <<>>
    ELSE MetricVals(batches[1], m) \o BatchesVals(Tail(batches), m)

\* the worker is in the hook of a validation or test epoch, at the
\* all_gather of a metric
AtMetricGather(w) ==
    /\ phase \in {"sanity", "val", "test"}
    /\ stage[w] = "gather"

\* the tensor the worker handed to its latest all_gather
Submitted(w) == gathers[w][Len(gathers[w])].tensor

\* the metric of the worker's latest all_gather
SubmittedMetric(w) == gathers[w][Len(gathers[w])].tag[2]

\* the tensor ends with the epoch's batches in step order; in a validation
\* epoch it is exactly these
SubmittedInStepOrder(w) ==
    LET own == BatchesVals(epoch_batches[w], SubmittedMetric(w))
    IN  /\ Len(Submitted(w)) >= Len(own)
        /\ LastN(Submitted(w), Len(own)) = own
        /\ phase \in {"sanity", "val"} => Submitted(w) = own

\* while a validation epoch's steps run, the list holds one entry per step,
\* the step's per-sample tensor as it is
OneEntryPerStep(w) ==
    (phase \in {"sanity", "val"} /\ stage[w] = "steps") =>
        /\ Len(val_metrics[w]["mse"]) = batch_idx[w]
        /\ \A j \in 1..batch_idx[w] :
               val_metrics[w]["mse"][j] =
                   MetricVals(epoch_batches[w][j], "mse")

\* C18: the tensor a worker hands to the all_gather of a metric is the
\* concatenation of its per-batch tensors in the order its steps appended
\* them, and the steps themselves neither reduce nor gather.
C18_BatchOrderPreserved ==
    /\ [](\A w \in Workers : AtMetricGather(w) => SubmittedInStepOrder(w))
    /\ [](\A w \in Workers : OneEntryPerStep(w))
    /\ [][\A w \in Workers :
            (stage[w] = "steps" /\ stage'[w] = "steps") =>
                gathers'[w] = gathers[w]]_vars

\* a worker has handed in the tensor of a two-batch validation epoch whose
\* batches differ
C18_Witness ==
    \E w \in Workers :
        /\ phase = "val"
        /\ stage[w] = "gather"
        /\ Len(epoch_batches[w]) = 2
        /\ Len(Submitted(w)) = 3
        /\ Submitted(w)[1] # Submitted(w)[2]
        /\ Submitted(w)[3] = epoch_batches[w][2][1]["mse"]

\* C21: after on_load_checkpoint no key of the state dict starts with the
\* old prefix, every key that had the old prefix is found under its
\* "encoding_grid_mlp" key with the same value, and every other key of the
\* loaded state dict is unchanged, whatever old-prefixed keys it holds.
C21_MigrationComplete ==
    Len(ckpt_log) >= 2 =>
        /\ \A key \in DOMAIN StateDictAfter(1) : ~StartsWithOld(key)
        /\ \A key \in DOMAIN StateDictAfter(0) :
               IF StartsWithOld(key)
               THEN /\ NewKey(key) \in DOMAIN StateDictAfter(1)
                    /\ StateDictAfter(1)[NewKey(key)] = StateDictAfter(0)[key]
               ELSE /\ key \in DOMAIN StateDictAfter(1)
                    /\ StateDictAfter(1)[key] = StateDictAfter(0)[key]

\* worker w runs the body of a test_step past common_step in this step
TestStepBody(w) ==
    /\ phase = "test"
    /\ epoch_batches'[w] # epoch_batches[w]

\* C22: on the primary worker a test_step entered with plotted_examples
\* below n_example_pred returns normally and raises plotted_examples by
\* exactly min(batch_size, n_example_pred - plotted_examples), its call of
\* plot_examples binding every required parameter.
C22_TestStepPlotsExamples ==
    [][\A w \in Workers :
          (/\ IsGlobalZero(w)
           /\ TestStepBody(w)
           /\ plotted_examples[w] < n_example_pred) =>
              /\ PlotExamplesRequired \subseteq TestStepPlotArgs
              /\ error' = "none"
              /\ batch_idx'[w] = batch_idx[w] + 1
              /\ plotted_examples'[w] =
                     plotted_examples[w] +
                     Min(Len(dataset[w][batch_idx[w] + 1]),
                         n_example_pred - plotted_examples[w])]_vars

\* new is old with exactly one entry added at its end
OneAppended(new, old) ==
    /\ Len(new) = Len(old) + 1
    /\ SubSeq(new, 1, Len(old)) = old

\* worker w returns normally from a step in this step
StepReturns(w) == batch_idx'[w] = batch_idx[w] + 1

\* C23: training_step changes none of val_metrics, test_metrics,
\* spatial_loss_maps and inference_output; validation_step appends exactly
\* one entry to val_metrics["mse"] and changes none of the other three; a
\* test_step that returns normally appends exactly one entry to every list
\* of test_metrics and one to spatial_loss_maps and leaves val_metrics.
C23_StepFrames ==
    [][\A w \in Workers :
          /\ (phase = "train" /\ (StepReturns(w) \/ stage'[w] # stage[w])) =>
                 UNCHANGED <<val_metrics, test_metrics, spatial_loss_maps,
                             inference_output>>
          /\ (phase \in {"sanity", "val"} /\ StepReturns(w)) =>
                 /\ DOMAIN val_metrics'[w] = DOMAIN val_metrics[w]
                 /\ OneAppended(val_metrics'[w]["mse"], val_metrics[w]["mse"])
                 /\ \A v \in Workers \ {w} : val_metrics'[v] = val_metrics[v]
                 /\ UNCHANGED <<test_metrics, spatial_loss_maps,
                                inference_output>>
          /\ (phase = "test" /\ StepReturns(w)) =>
                 /\ DOMAIN test_metrics'[w] = DOMAIN test_metrics[w]
                 /\ \A m \in DOMAIN test_metrics[w] :
                        OneAppended(test_metrics'[w][m], test_metrics[w][m])
                 /\ OneAppended(spatial_loss_maps'[w], spatial_loss_maps[w])
                 /\ \A v \in Workers \ {w} :
                        /\ test_metrics'[v] = test_metrics[v]
                        /\ spatial_loss_maps'[v] = spatial_loss_maps[v]
                 /\ UNCHANGED val_metrics]_vars

\* a worker of a model with output_std has returned from the two test steps
\* of an epoch: mse, mae and output_std hold two entries each, and so does
\* spatial_loss_maps
C23_Witness ==
    \E w \in Workers :
        /\ phase = "test"
        /\ error = "none"
        /\ batch_idx[w] = 2
        /\ DOMAIN test_metrics[w] = {"mse", "mae", "output_std"}
        /\ \A m \in DOMAIN test_metrics[w] : Len(test_metrics[w][m]) = 2
        /\ Len(spatial_loss_maps[w]) = 2
        /\ val_metrics[w]["mse"] = <<>>

\* C24: while the trainer is sanity checking, on_validation_epoch_end sends
\* nothing to wandb.log, yet every worker takes part in the all_gather and
\* val_metrics is cleared on return; what a worker hands to the gather of a
\* real validation epoch is the batches of that epoch only.
C24_SanityCheckDoesNotLeak ==
    /\ [][phase = "sanity" => wandb_logs' = wandb_logs]_vars
    /\ [](\A w \in Workers :
            (phase = "sanity" /\ stage[w] = "returned") =>
                /\ Len(gathers[w]) = 1
                /\ gathers[w][1].tensor = BatchesVals(epoch_batches[w], "mse")
                /\ val_metrics[w]["mse"] = <<>>)
    /\ [](\A w \in Workers :
            (phase = "val" /\ stage[w] \in {"gather", "returned"}) =>
                /\ Submitted(w) = BatchesVals(epoch_batches[w], "mse")
                /\ stage[w] = "returned" =>
                       Len(metric_tensor[w]) =
                           Len(BatchesVals(epoch_batches[0], "mse")) +
                           Len(BatchesVals(epoch_batches[1], "mse")))

\* the first real validation epoch after the sanity check has been logged:
\* two gathers were made, one log was sent, and the aggregate holds the
\* samples of this epoch's single batch per worker
C24_Witness ==
    /\ phase = "val"
    /\ epochs = 2
    /\ \A w \in Workers :
           /\ stage[w] = "returned"
           /\ Len(gathers[w]) = 2
           /\ Len(gathers[w][1].tensor) = 3
           /\ Len(epoch_batches[w]) = 1
    /\ Len(wandb_logs) = 1
    /\ Len(metric_tensor[0]) = 4

\* the tags of the all_gather calls a worker has made, in order
GatherTags(w) == [i \in DOMAIN gathers[w] |-> gathers[w][i].tag]

\* what the all_gather rank 0 is waiting in returns: the tensors every
\* worker handed to that call, rank after rank
GatheredOfAll ==
    LET n == Len(gathers[0])
    IN  gathers[0][n].tensor \o gathers[1][n].tensor

\* worker w moves on in its hook in this step
HookStep(w) ==
    /\ phase \in {"sanity", "val", "test"}
    /\ stage[w] \in {"gather", "spatial_gather"}
    /\ \/ metric_k'[w] # metric_k[w]
       \/ stage'[w] # stage[w]

\* C25: in aggregate_and_plot_metrics and on_test_epoch_end a worker other
\* than the primary one makes every all_gather call the primary makes,
\* keeps an empty log mapping and emits nothing, neither to wandb.log nor as
\* an error map or file; the primary worker alone emits, and what it emits
\* is reduced from the samples of all workers.
C25_PrimaryOnlyEmission ==
    /\ [](\A w \in Workers \ {0} :
            /\ log_dict[w] = <<>>
            /\ (phase \in {"sanity", "val", "test"} /\
                stage[w] = "returned" /\ stage[0] = "returned") =>
                   GatherTags(w) = GatherTags(0))
    /\ [][\A w \in Workers \ {0} :
            HookStep(w) =>
                /\ wandb_logs' = wandb_logs
                /\ error_maps' = error_maps]_vars
    /\ [][HookStep(0) =>
            /\ \A e \in error_maps' \ error_maps :
                   /\ e.gathered = GatheredOfAll
                   /\ e.metric_tensor =
                          ReduceMetric(HookOrder[metric_k'[0]], GatheredOfAll)
            /\ (stage[0] = "spatial_gather" /\ error' = "none") =>
                   wandb_logs' =
                       Append(wandb_logs,
                              << [name |-> <<"test", "loss">>,
                                  value |-> Mean(GatheredOfAll)] >>)]_vars

\* a test epoch is over on both workers: rank 1 made the same three gathers
\* as rank 0 and logged nothing, rank 0 logged the metrics and the spatial
\* loss of the four samples of the two workers
C25_Witness ==
    /\ phase = "test"
    /\ \A w \in Workers : stage[w] = "returned"
    /\ Len(gathers[1]) = 3
    /\ GatherTags(1) = GatherTags(0)
    /\ log_dict[0] # <<>>
    /\ log_dict[1] = <<>>
    /\ Len(wandb_logs) = 2
    /\ \E e \in error_maps : Len(e.gathered) = 4

====
